---- MODULE Spec2Model ----
(***************************************************************************)
(* Model of the bulk-configuration propagation verifier TestBasicPerf and  *)
(* of its sample selector getRandomList (src/internal/util/builder/        *)
(* listener.go, lines 94-206).                                             *)
(*                                                                         *)
(* Two specifications share the variables:                                 *)
(*   SpecSelect  getRandomList called on every n in 1..MaxN with the       *)
(*               code's threshold and draw count (10).                     *)
(*   Spec        the harness from the apply call to the join.  It runs at  *)
(*               a reduced scale: NumRules rules (10000 in the code) and   *)
(*               HarnessK drawn indices (10 in the code), NumRules >       *)
(*               HarnessK as in the code, so that the sample is            *)
(*               HarnessK drawn indices followed by 0 and NumRules - 1,    *)
(*               one task each.                                            *)
(*                                                                         *)
(* Time is counted in poll intervals (500 ms).  Every task owns the clock  *)
(* of its own require.Eventually call: elapsed[t] counts the intervals     *)
(* since the call began and its timer fires at IngressWaitTicks.  A        *)
(* goroutine blocked in select takes a ready channel at once, so time does *)
(* not advance past a ready timer or a ready, enabled ticker.              *)
(* require.Eventually is the testify loop: a timer of waitFor, a ticker of *)
(* tick, the condition run in a goroutine of its own on every tick taken   *)
(* (the first one interval after the call), the tick case disabled until   *)
(* the condition's result has been received.                               *)
(***************************************************************************)
EXTENDS Integers, Sequences, FiniteSets, TLC

\* The literal 10 of getRandomList: threshold and number of drawn indices.
SampleK == 10

\* Largest n the selector is called on in SpecSelect.
MaxN == 13

\* Harness scale: number of submitted rules and number of drawn indices.
NumRules == 2
HarnessK == 0

\* ingressWait, in poll intervals.
IngressWaitTicks == 3

VARIABLES
    pc,          \* position of the test goroutine (or of the selector call)
    n,           \* argument of getRandomList
    randomList,  \* the sample: a sequence of indices
    t2set,       \* t2 (submission end) recorded
    t4set,       \* t4 (verification end) recorded
    applyErr,    \* the apply call returned an error
    failedRun,   \* t.Failed(): some require has failed
    wg,          \* sync.WaitGroup counter
    next,        \* position in randomList of the next goroutine to launch
    phase,       \* per task: idle, spawned, waiting, probing, stuck, succeeded, failed
    elapsed,     \* per task: intervals since its Eventually call began
    tickReady,   \* per task: the ticker channel holds a tick
    attempts,    \* per task: probes issued
    notObs,      \* per task: probes that came back without observing the marker
    last,        \* per task: result of the last probe that did not observe the marker
    listener,    \* the listener field of the ListenerBuilder
    op,          \* the last ListenerBuilder method called
    called,      \* the fields a setter has been called for
    built        \* what Build or IntoSlice last returned: a slice of listeners

vars == <<pc, n, randomList, applyErr, t2set, t4set, failedRun, wg, next,
          phase, elapsed, tickReady, attempts, notObs, last,
          listener, op, called, built>>

builderVars == <<listener, op, called, built>>

taskVars == <<phase, elapsed, tickReady, attempts, notObs, last>>

-----------------------------------------------------------------------------
(* getRandomList *)

RECURSIVE SortedSeq(_)
\* The elements of a finite set of integers in ascending order.
SortedSeq(S) ==
    IF S = {} THEN <<>>
    ELSE LET m == CHOOSE x \in S : \A y \in S : x <= y
         IN  <<m>> \o SortedSeq(S \ {m})

\* rand.Perm(m)[:k]: k distinct values of 0..m-1.  The order of the drawn
\* values is not kept: one sequence stands for every arrangement of the same
\* values (the order only fixes the launch order of the goroutines).
PermPrefix(m, k) ==
    { SortedSeq(S) : S \in { T \in SUBSET (0 .. m - 1) : Cardinality(T) = k } }

\* The set of lists getRandomList can return for n = m, with the literal 10
\* replaced by k.
getRandomList(m, k) ==
    IF m <= k
    THEN { <<0, m>> }
    ELSE { Append(Append(p, 0), m - 1) : p \in PermPrefix(m, k) }

Range(s) == { s[i] : i \in 1 .. Len(s) }

Tasks == 1 .. Len(randomList)

-----------------------------------------------------------------------------
(* Results of one probe (the condition closure of require.Eventually) *)

Outcomes == {"err", "non200", "nomarker", "ok", "empty", "readerr"}

\* the closure returns false
FalseOutcomes == {"err", "non200", "nomarker"}

\* a require inside the closure fails: FailNow in the condition goroutine
AbortOutcomes == {"empty", "readerr"}

\* what the harness can tell apart of a false result: a transport error is
\* logged, the others are not
Class(o) ==
    IF o = "err" THEN "err"
    ELSE IF o \in {"empty", "readerr"} THEN "abort"
    ELSE "false"

Polling(t) == phase[t] \in {"waiting", "probing", "stuck"}

Resolved(t) == phase[t] \in {"succeeded", "failed"}

-----------------------------------------------------------------------------
(* Initial states *)

TaskInit ==
    /\ phase = <<>>
    /\ elapsed = <<>>
    /\ tickReady = <<>>
    /\ attempts = <<>>
    /\ notObs = <<>>
    /\ last = <<>>

\* no builder in use
BuilderIdle ==
    /\ listener = <<>>
    /\ op = "none"
    /\ called = {}
    /\ built = <<>>

HarnessIdle ==
    /\ applyErr = FALSE
    /\ t2set = FALSE
    /\ t4set = FALSE
    /\ failedRun = FALSE
    /\ wg = 0
    /\ next = 1
    /\ TaskInit

Init ==
    /\ pc = "start"
    /\ n = NumRules
    /\ randomList = <<>>
    /\ HarnessIdle
    /\ BuilderIdle

InitSelect ==
    /\ pc = "call"
    /\ n \in 1 .. MaxN
    /\ randomList = <<>>
    /\ HarnessIdle
    /\ BuilderIdle

-----------------------------------------------------------------------------
(* The selector on its own *)

SelectCall ==
    /\ pc = "call"
    /\ randomList' \in getRandomList(n, SampleK)
    /\ pc' = "returned"
    /\ UNCHANGED <<builderVars, n, applyErr, t2set, t4set, failedRun, wg, next, taskVars>>

NextSelect == SelectCall

SpecSelect == InitSelect /\ [][NextSelect]_vars

-----------------------------------------------------------------------------
(* ListenerBuilder *)

\* Arguments the methods are called with.  A pointer is a sequence: <<>> is
\* nil, <<v>> points to v.
Names == {"http", "tls"}
PortInputs == {80, 443}
HostnameInputs == {"a.example.com"}
RoutesInputs == {<<>>, <<"All">>}

\* gatewayv1beta1.PortNumber(port): the conversion of int to int32, which
\* keeps every value of PortInputs.
PortNumber(p) == p

\* &ListenerBuilder{listener: Listener{Name: SectionName(name)}}: every other
\* field of the Listener has Go's zero value.
NewListener(name) ==
    [Name |-> name, Port |-> 0, Protocol |-> "", Hostname |-> <<>>,
     AllowedRoutes |-> <<>>]

InitBuilder ==
    /\ pc = "builder"
    /\ n = 0
    /\ randomList = <<>>
    /\ HarnessIdle
    /\ \E name \in Names : listener = NewListener(name)
    /\ op = "NewListener"
    /\ called = {}
    /\ built = <<>>

harnessVars == <<pc, n, randomList, applyErr, t2set, t4set, failedRun, wg, next,
                 taskVars>>

Build ==
    /\ pc = "builder"
    /\ built' = <<listener>>
    /\ op' = "Build"
    /\ UNCHANGED <<harnessVars, listener, called>>

IntoSlice ==
    /\ pc = "builder"
    /\ built' = <<listener>>
    /\ op' = "IntoSlice"
    /\ UNCHANGED <<harnessVars, listener, called>>

WithPort ==
    /\ pc = "builder"
    /\ \E port \in PortInputs :
          listener' = [listener EXCEPT !.Port = PortNumber(port)]
    /\ op' = "WithPort"
    /\ called' = called \cup {"Port"}
    /\ UNCHANGED <<harnessVars, built>>

\* the four protocol setters: b.listener.Protocol = <type>
SetProtocol(type) ==
    /\ pc = "builder"
    /\ listener' = [listener EXCEPT !.Protocol = type]
    /\ op' = type
    /\ called' = called \cup {"Protocol"}
    /\ UNCHANGED <<harnessVars, built>>

HTTP == SetProtocol("HTTP")

HTTPS == SetProtocol("HTTPS")

TLS == SetProtocol("TLS")

TCP == SetProtocol("TCP")

\* WithHostname as it would be if it assigned the section name as well.
WithHostnameSetsName ==
    /\ pc = "builder"
    /\ \E hostname \in HostnameInputs :
          listener' = [listener EXCEPT !.Hostname = <<hostname>>, !.Name = hostname]
    /\ op' = "WithHostname"
    /\ called' = called \cup {"Hostname"}
    /\ UNCHANGED <<harnessVars, built>>

\* b.listener.Hostname = addressOf(Hostname(hostname)): a pointer to a copy
WithHostname ==
    /\ pc = "builder"
    /\ \E hostname \in HostnameInputs :
          listener' = [listener EXCEPT !.Hostname = <<hostname>>]
    /\ op' = "WithHostname"
    /\ called' = called \cup {"Hostname"}
    /\ UNCHANGED <<harnessVars, built>>

WithAllowedRoutes ==
    /\ pc = "builder"
    /\ \E routes \in RoutesInputs :
          listener' = [listener EXCEPT !.AllowedRoutes = routes]
    /\ op' = "WithAllowedRoutes"
    /\ called' = called \cup {"AllowedRoutes"}
    /\ UNCHANGED <<harnessVars, built>>

NextBuilder ==
    \/ Build
    \/ IntoSlice
    \/ WithPort
    \/ HTTP
    \/ HTTPS
    \/ TLS
    \/ TCP
    \/ WithHostname
    \/ WithAllowedRoutes

SpecBuilder == InitBuilder /\ [][NextBuilder]_vars

-----------------------------------------------------------------------------
(* The harness: TestBasicPerf from t1 to t4 *)

\* f with position t set to v
Set(f, t, v) == [f EXCEPT ![t] = v]

\* kubectl apply returns without error; t2 is taken.
ApplyOk ==
    /\ pc = "start"
    /\ pc' = "applied"
    /\ t2set' = TRUE
    /\ UNCHANGED <<builderVars, n, randomList, applyErr, t4set, failedRun, wg, next, taskVars>>

\* ApplyErr as it would be if the error of the apply call were only logged.
ApplyErrIgnored ==
    /\ pc = "start"
    /\ applyErr' = TRUE
    /\ pc' = "applied"
    /\ UNCHANGED <<builderVars, n, randomList, t2set, t4set, failedRun, wg, next, taskVars>>

\* kubectl apply returns an error: require.NoError stops the test goroutine.
ApplyErr ==
    /\ pc = "start"
    /\ applyErr' = TRUE
    /\ pc' = "aborted"
    /\ failedRun' = TRUE
    /\ UNCHANGED <<builderVars, n, randomList, t2set, t4set, wg, next, taskVars>>

\* Select as it would be if the sample were taken and the goroutines prepared
\* without waiting for the apply call.
SelectBeforeApply ==
    /\ pc \in {"start", "applied"}
    /\ \E l \in getRandomList(n, HarnessK) :
          /\ randomList' = l
          /\ wg' = Len(l)
          /\ phase' = [t \in 1 .. Len(l) |-> "idle"]
          /\ elapsed' = [t \in 1 .. Len(l) |-> 0]
          /\ tickReady' = [t \in 1 .. Len(l) |-> FALSE]
          /\ attempts' = [t \in 1 .. Len(l) |-> 0]
          /\ notObs' = [t \in 1 .. Len(l) |-> 0]
          /\ last' = [t \in 1 .. Len(l) |-> "none"]
    /\ next' = 1
    /\ pc' = "dispatch"
    /\ UNCHANGED <<builderVars, n, applyErr, t2set, t4set, failedRun>>

\* randomList := getRandomList(...); wg.Add(len(randomList))
Select ==
    /\ pc = "applied"
    /\ \E l \in getRandomList(n, HarnessK) :
          /\ randomList' = l
          /\ wg' = Len(l)
          /\ phase' = [t \in 1 .. Len(l) |-> "idle"]
          /\ elapsed' = [t \in 1 .. Len(l) |-> 0]
          /\ tickReady' = [t \in 1 .. Len(l) |-> FALSE]
          /\ attempts' = [t \in 1 .. Len(l) |-> 0]
          /\ notObs' = [t \in 1 .. Len(l) |-> 0]
          /\ last' = [t \in 1 .. Len(l) |-> "none"]
    /\ next' = 1
    /\ pc' = "dispatch"
    /\ UNCHANGED <<builderVars, n, applyErr, t2set, t4set, failedRun>>

\* one iteration of the range loop: go func(i) {...}(i)
Dispatch ==
    /\ pc = "dispatch"
    /\ next <= Len(randomList)
    /\ phase' = Set(phase, next, "spawned")
    /\ next' = next + 1
    /\ pc' = IF next = Len(randomList) THEN "wait" ELSE "dispatch"
    /\ UNCHANGED <<builderVars, n, randomList, applyErr, t2set, t4set, failedRun, wg,
                   elapsed, tickReady, attempts, notObs, last>>

\* The goroutine runs: the request is built and require.Eventually begins
\* (its timer and its ticker are created).  The request is built from the
\* method GET, a non-nil context and an http URL, for which
\* http.NewRequestWithContext returns no error.
TaskStart(t) ==
    /\ phase[t] = "spawned"
    /\ phase' = Set(phase, t, "waiting")
    /\ elapsed' = Set(elapsed, t, 0)
    /\ tickReady' = Set(tickReady, t, FALSE)
    /\ UNCHANGED <<builderVars, pc, n, randomList, applyErr, t2set, t4set, failedRun, wg, next,
                   attempts, notObs, last>>

\* TickFire as it would be if the ticker kept driving probes after the task
\* had succeeded.
TickFireAfterSuccess(t) ==
    /\ \/ phase[t] = "waiting" /\ tickReady[t]
       \/ phase[t] = "succeeded"
    /\ phase' = Set(phase, t, IF phase[t] = "succeeded" THEN "succeeded" ELSE "probing")
    /\ tickReady' = Set(tickReady, t, FALSE)
    /\ attempts' = Set(attempts, t, attempts[t] + 1)
    /\ UNCHANGED <<builderVars, pc, n, randomList, applyErr, t2set, t4set, failedRun, wg, next,
                   elapsed, notObs, last>>

\* select takes the tick: the condition runs in a goroutine of its own and
\* the tick case is disabled until its result arrives.
TickFire(t) ==
    /\ phase[t] = "waiting"
    /\ tickReady[t]
    /\ phase' = Set(phase, t, "probing")
    /\ tickReady' = Set(tickReady, t, FALSE)
    /\ attempts' = Set(attempts, t, attempts[t] + 1)
    /\ UNCHANGED <<builderVars, pc, n, randomList, applyErr, t2set, t4set, failedRun, wg, next,
                   elapsed, notObs, last>>

\* The condition returns true: Eventually returns, the goroutine ends and its
\* deferred wg.Done runs.
ProbeTrue(t) ==
    /\ phase[t] = "probing"
    /\ phase' = Set(phase, t, "succeeded")
    /\ wg' = wg - 1
    /\ UNCHANGED <<builderVars, pc, n, randomList, applyErr, t2set, t4set, failedRun, next,
                   elapsed, tickReady, attempts, notObs, last>>

\* ProbeFalse as it would be if a transport error ended the task.
ProbeFalseErrFatal(t) ==
    /\ phase[t] = "probing"
    /\ \E o \in FalseOutcomes :
          /\ last' = Set(last, t, Class(o))
          /\ phase' = Set(phase, t, IF o = "err" THEN "failed" ELSE "waiting")
          /\ wg' = IF o = "err" THEN wg - 1 ELSE wg
          /\ failedRun' = (failedRun \/ o = "err")
    /\ notObs' = Set(notObs, t, notObs[t] + 1)
    /\ UNCHANGED <<builderVars, pc, n, randomList, applyErr, t2set, t4set, next,
                   elapsed, tickReady, attempts>>

\* The condition returns false (transport error, status other than 200, body
\* without the marker): the tick case is enabled again.
ProbeFalse(t) ==
    /\ phase[t] = "probing"
    /\ \E o \in FalseOutcomes : last' = Set(last, t, Class(o))
    /\ phase' = Set(phase, t, "waiting")
    /\ notObs' = Set(notObs, t, notObs[t] + 1)
    /\ UNCHANGED <<builderVars, pc, n, randomList, applyErr, t2set, t4set, failedRun, wg, next,
                   elapsed, tickReady, attempts>>

\* ProbeAbort as it would be if the deferred wg.Done ran in the condition
\* goroutine as well.
ProbeAbortDone(t) ==
    /\ phase[t] = "probing"
    /\ \E o \in AbortOutcomes : last' = Set(last, t, Class(o))
    /\ phase' = Set(phase, t, "stuck")
    /\ notObs' = Set(notObs, t, notObs[t] + 1)
    /\ failedRun' = TRUE
    /\ wg' = wg - 1
    /\ UNCHANGED <<builderVars, pc, n, randomList, applyErr, t2set, t4set, next,
                   elapsed, tickReady, attempts>>

\* Status 200 with an unreadable or empty body: require.NoError or
\* require.True fails inside the condition goroutine, which marks the test
\* failed and exits without sending a result; the tick case stays disabled.
ProbeAbort(t) ==
    /\ phase[t] = "probing"
    /\ \E o \in AbortOutcomes : last' = Set(last, t, Class(o))
    /\ phase' = Set(phase, t, "stuck")
    /\ notObs' = Set(notObs, t, notObs[t] + 1)
    /\ failedRun' = TRUE
    /\ UNCHANGED <<builderVars, pc, n, randomList, applyErr, t2set, t4set, wg, next,
                   elapsed, tickReady, attempts>>

\* Timeout as it would be if the first task to time out cancelled the others.
TimeoutCancelsAll(t) ==
    /\ Polling(t)
    /\ elapsed[t] >= IngressWaitTicks
    /\ phase' = [u \in Tasks |-> IF Polling(u) THEN "failed" ELSE phase[u]]
    /\ failedRun' = TRUE
    /\ wg' = wg - Cardinality({u \in Tasks : Polling(u)})
    /\ UNCHANGED <<builderVars, pc, n, randomList, applyErr, t2set, t4set, next,
                   elapsed, tickReady, attempts, notObs, last>>

\* Timeout as it would be if the timeout were not reported to the test.
TimeoutSilent(t) ==
    /\ Polling(t)
    /\ elapsed[t] >= IngressWaitTicks
    /\ phase' = Set(phase, t, "failed")
    /\ wg' = wg - 1
    /\ UNCHANGED <<builderVars, pc, n, randomList, applyErr, t2set, t4set, next,
                   failedRun, elapsed, tickReady, attempts, notObs, last>>

\* Timeout as it would be if the timer were lost once an assertion inside the
\* condition has failed.
TimeoutNotStuck(t) ==
    /\ phase[t] \in {"waiting", "probing"}
    /\ elapsed[t] >= IngressWaitTicks
    /\ phase' = Set(phase, t, "failed")
    /\ failedRun' = TRUE
    /\ wg' = wg - 1
    /\ UNCHANGED <<builderVars, pc, n, randomList, applyErr, t2set, t4set, next,
                   elapsed, tickReady, attempts, notObs, last>>

\* Timeout as it would be if the timer were one interval short.
TimeoutEarly(t) ==
    /\ Polling(t)
    /\ elapsed[t] >= IngressWaitTicks - 1
    /\ phase' = Set(phase, t, "failed")
    /\ failedRun' = TRUE
    /\ wg' = wg - 1
    /\ UNCHANGED <<builderVars, pc, n, randomList, applyErr, t2set, t4set, next,
                   elapsed, tickReady, attempts, notObs, last>>

\* The timer of Eventually fires: require.Eventually fails, FailNow ends the
\* goroutine and its deferred wg.Done runs.  A probe still in flight is
\* abandoned.
Timeout(t) ==
    /\ Polling(t)
    /\ elapsed[t] >= IngressWaitTicks
    /\ phase' = Set(phase, t, "failed")
    /\ failedRun' = TRUE
    /\ wg' = wg - 1
    /\ UNCHANGED <<builderVars, pc, n, randomList, applyErr, t2set, t4set, next,
                   elapsed, tickReady, attempts, notObs, last>>

\* A ready channel that a blocked select must take before time moves on.
Urgent(t) ==
    \/ Polling(t) /\ elapsed[t] >= IngressWaitTicks
    \/ phase[t] = "waiting" /\ tickReady[t]

\* Advance as it would be if the timers ran from the dispatch loop on, not
\* from each task's own require.Eventually call.
AdvanceFromDispatch ==
    /\ \E t \in Tasks : Polling(t)
    /\ \A t \in Tasks : ~Urgent(t)
    /\ elapsed' = [t \in Tasks |->
                     IF Polling(t) \/ phase[t] = "spawned"
                     THEN elapsed[t] + 1 ELSE elapsed[t]]
    /\ tickReady' = [t \in Tasks |-> IF Polling(t) THEN TRUE ELSE tickReady[t]]
    /\ UNCHANGED <<builderVars, pc, n, randomList, applyErr, t2set, t4set, failedRun, wg, next,
                   phase, attempts, notObs, last>>

\* One poll interval passes: every running ticker delivers a tick.
Advance ==
    /\ \E t \in Tasks : Polling(t)
    /\ \A t \in Tasks : ~Urgent(t)
    /\ elapsed' = [t \in Tasks |-> IF Polling(t) THEN elapsed[t] + 1 ELSE elapsed[t]]
    /\ tickReady' = [t \in Tasks |-> IF Polling(t) THEN TRUE ELSE tickReady[t]]
    /\ UNCHANGED <<builderVars, pc, n, randomList, applyErr, t2set, t4set, failedRun, wg, next,
                   phase, attempts, notObs, last>>

\* Join as it would be if the harness went on at the first completion.
JoinFirst ==
    /\ pc = "wait"
    /\ wg < Len(randomList)
    /\ pc' = "done"
    /\ t4set' = TRUE
    /\ UNCHANGED <<builderVars, n, randomList, applyErr, t2set, failedRun, wg, next, taskVars>>

\* wg.Wait() returns; t4 is taken.
Join ==
    /\ pc = "wait"
    /\ wg = 0
    /\ pc' = "done"
    /\ t4set' = TRUE
    /\ UNCHANGED <<builderVars, n, randomList, applyErr, t2set, failedRun, wg, next, taskVars>>

Next ==
    \/ ApplyOk
    \/ ApplyErr
    \/ Select
    \/ Dispatch
    \/ \E t \in Tasks : TaskStart(t)
    \/ \E t \in Tasks : TickFire(t)
    \/ \E t \in Tasks : ProbeTrue(t)
    \/ \E t \in Tasks : ProbeFalse(t)
    \/ \E t \in Tasks : ProbeAbort(t)
    \/ \E t \in Tasks : Timeout(t)
    \/ Advance
    \/ Join

Spec == Init /\ [][Next]_vars

\* The positions a sample of the harness can have.
TaskIds == 1 .. (HarnessK + 2)

\* Scheduling: the apply call returns, every goroutine that can run does run,
\* timers and tickers fire and time passes.  Nothing is assumed of the
\* probes: a request may never come back.
Fairness ==
    /\ WF_vars(ApplyOk \/ ApplyErr)
    /\ WF_vars(Select)
    /\ WF_vars(Dispatch)
    /\ WF_vars(Advance)
    /\ WF_vars(Join)
    /\ \A t \in TaskIds :
          /\ WF_vars(t \in Tasks /\ TaskStart(t))
          /\ WF_vars(t \in Tasks /\ TickFire(t))
          /\ WF_vars(t \in Tasks /\ Timeout(t))

FairSpec == Spec /\ Fairness

-----------------------------------------------------------------------------
(* The sample selector (checked under SpecSelect) *)

Min(a, b) == IF a <= b THEN a ELSE b

\* some index occurs at two positions of s
HasDuplicate(s) == \E i, j \in 1 .. Len(s) : i # j /\ s[i] = s[j]

\* C1: every index getRandomList(n) returns lies in [0, n), for every n >= 1.
C1_IndicesInRange ==
    pc = "returned" => \A i \in Range(randomList) : 0 <= i /\ i < n

\* C2: the list getRandomList(n) returns contains both boundary indices, 0
\* and n-1, for every n >= 1 and every draw.
C2_ContainsBoundaries ==
    pc = "returned" => 0 \in Range(randomList) /\ (n - 1) \in Range(randomList)

\* C3: the list getRandomList(n) returns holds no index twice and has at most
\* min(n, 10 + 2) entries.
C3_DeduplicatedAndBounded ==
    pc = "returned" =>
        /\ ~HasDuplicate(randomList)
        /\ Len(randomList) <= Min(n, SampleK + 2)

\* C4: for 1 <= n <= 10 + 2 the selector returns a sample that covers the
\* first and the last index, having drawn no more random indices than the n
\* that exist.
C4_SmallInputs ==
    (pc = "returned" /\ n <= SampleK + 2) =>
        /\ {0, n - 1} \subseteq Range(randomList)
        /\ Len(randomList) - 2 <= n

-----------------------------------------------------------------------------
(* The harness (checked under Spec) *)

Dispatched(t) == phase[t] # "idle"

\* C5: no task is dispatched and no probe is issued before the apply call has
\* returned without error and t2 has been recorded.
C5_ApplyBeforeDispatch ==
    \A t \in Tasks :
        (Dispatched(t) \/ attempts[t] > 0) =>
            /\ t2set
            /\ pc \in {"dispatch", "wait", "done"}

\* a task is polling after the submission has ended
C5_Witness ==
    \E t \in Tasks : phase[t] = "probing" /\ attempts[t] = 1 /\ t2set

\* C6: once the apply call has returned an error the run is failed and has
\* stopped: no sample is selected, no task exists, and it stays so.
C6_ApplyErrorAborts ==
    /\ [](applyErr =>
            /\ pc = "aborted"
            /\ failedRun
            /\ ~t2set
            /\ randomList = <<>>
            /\ Tasks = {}
            /\ wg = 0)
    /\ [][applyErr => UNCHANGED vars]_vars

\* the apply call has failed
C6_Witness == applyErr /\ pc = "aborted"

\* C7: the harness is past wg.Wait, and t4 is recorded, only when every task
\* of the sample has resolved.
C7_FullJoin ==
    (pc = "done" \/ t4set) =>
        /\ pc = "done" /\ t4set
        /\ randomList # <<>>
        /\ \A t \in Tasks : Resolved(t)

\* the join is passed after one task has succeeded and another has timed out
C7_Witness ==
    /\ pc = "done"
    /\ \E t, u \in Tasks : phase[t] = "succeeded" /\ phase[u] = "failed"

\* C8: a task resolves as failure only when its own deadline has elapsed, and
\* this marks the run failed; when the join is passed and no task has observed
\* the marker, every task of the sample has failed.
C8_FailureOnlyAtDeadline ==
    /\ \A t \in Tasks :
          phase[t] = "failed" => elapsed[t] = IngressWaitTicks /\ failedRun
    /\ (pc = "done" /\ \A t \in Tasks : phase[t] # "succeeded") =>
          (failedRun /\ \A t \in Tasks : phase[t] = "failed")

\* every task has polled to its deadline without observing the marker
C8_Witness ==
    /\ pc = "done"
    /\ \A t \in Tasks :
          phase[t] = "failed" /\ notObs[t] >= 2 /\ notObs[t] = attempts[t]

\* C9: a task that has succeeded did so on the attempt that followed its
\* notObs unsuccessful ones (m = notObs + 1 attempts, one per elapsed
\* interval, within the deadline), and a resolved task issues no further
\* probe.
C9_SuccessAfterExactlyM ==
    /\ [](\A t \in Tasks :
            phase[t] = "succeeded" =>
                /\ attempts[t] = notObs[t] + 1
                /\ attempts[t] <= elapsed[t]
                /\ elapsed[t] <= IngressWaitTicks)
    /\ [][\A t \in Tasks :
            Resolved(t) => (phase'[t] = phase[t] /\ attempts'[t] = attempts[t])]_vars

\* every task has succeeded, one on its first attempt and one on its second
C9_Witness ==
    /\ pc = "done"
    /\ \A t \in Tasks : phase[t] = "succeeded"
    /\ \E t, u \in Tasks : attempts[t] = 1 /\ attempts[u] = 2

\* the step of task t in which a probe comes back with a transport error
ErrReturn(t) ==
    /\ phase[t] = "probing"
    /\ notObs'[t] = notObs[t] + 1
    /\ last'[t] = "err"

\* C10: a probe that comes back with a transport error leaves its task
\* polling with the tick case enabled again, changes neither the run's failed
\* flag nor the wait-group counter, and does not prevent a later success.
C10_TransportErrorRetried ==
    /\ [][\A t \in Tasks :
            ErrReturn(t) =>
                /\ phase'[t] = "waiting"
                /\ failedRun' = failedRun
                /\ wg' = wg]_vars
    /\ [](\A t \in Tasks :
            (phase[t] = "waiting" /\ last[t] = "err" /\ tickReady[t]) =>
                ENABLED TickFire(t))

\* a task has succeeded after its two earlier attempts did not observe the
\* marker, the latest through a transport error
C10_Witness ==
    \E t \in Tasks :
        phase[t] = "succeeded" /\ last[t] = "err" /\ notObs[t] = 2

\* C11: the run is marked failed only by a failed apply call or by a task
\* whose deadline has elapsed, and no result of a single probe stops a task
\* from polling again before its deadline.
C11_OnlyDeadlineOrSubmissionFails ==
    /\ failedRun => (applyErr \/ \E t \in Tasks : phase[t] = "failed")
    /\ \A t \in Tasks :
          (Polling(t) /\ elapsed[t] < IngressWaitTicks) =>
              phase[t] \in {"waiting", "probing"}

\* everything of task u but t's own state is left as it is
OthersUntouched(t) ==
    \A u \in Tasks \ {t} :
        /\ phase'[u] = phase[u]
        /\ elapsed'[u] = elapsed[u]
        /\ tickReady'[u] = tickReady[u]
        /\ attempts'[u] = attempts[u]
        /\ notObs'[u] = notObs[u]
        /\ last'[u] = last[u]

\* C12: the step in which a task resolves leaves the state of every other
\* task as it is, and a task leaves its polling loop only by its own success
\* or at its own deadline.
C12_NoCrossTaskCancellation ==
    [][\A t \in Tasks :
          /\ (~Resolved(t) /\ phase'[t] \in {"succeeded", "failed"}) =>
                OthersUntouched(t)
          /\ (Polling(t) /\ phase'[t] \notin {"waiting", "probing", "stuck"}) =>
                \/ phase[t] = "probing" /\ phase'[t] = "succeeded"
                \/ phase'[t] = "failed" /\ elapsed[t] = IngressWaitTicks]_vars

\* one task has timed out and another, begun later, is still probing and can
\* succeed
C12_Witness ==
    \E t, u \in Tasks :
        /\ phase[t] = "failed"
        /\ phase[u] = "probing"
        /\ attempts[u] >= 2
        /\ ENABLED ProbeTrue(u)

\* C13: the run is marked failed as soon as some task has timed out, whatever
\* the others did; when the apply call succeeded and every task has
\* succeeded, the run is not marked failed.
C13_RunFailedIffSomeTimeout ==
    /\ (\E t \in Tasks : phase[t] = "failed") => failedRun
    /\ (t2set /\ pc = "done" /\ \A t \in Tasks : phase[t] = "succeeded") =>
          ~failedRun

\* one task timed out, the other succeeded at once, and the run is failed
C13_Witness ==
    /\ pc = "done"
    /\ failedRun
    /\ \E t, u \in Tasks :
          phase[t] = "failed" /\ phase[u] = "succeeded" /\ attempts[u] = 1

\* C14: the clock of a task's deadline does not run before the task's own
\* polling begins, starts at zero when it begins, advances by at most one
\* interval per step, and the task times out only when the clock has reached
\* the whole window.
C14_DeadlineFromOwnStart ==
    /\ [](\A t \in Tasks :
            phase[t] \in {"idle", "spawned"} => elapsed[t] = 0)
    /\ [][\A t \in Tasks :
            /\ (phase[t] = "spawned" /\ phase'[t] # "spawned") => elapsed'[t] = 0
            /\ Polling(t) => elapsed'[t] \in {elapsed[t], elapsed[t] + 1}
            /\ (phase[t] # "failed" /\ phase'[t] = "failed") =>
                  elapsed[t] = IngressWaitTicks]_vars

\* a task has used up its window while another, begun later, is one interval
\* into its own
C14_Witness ==
    \E t, u \in Tasks :
        /\ phase[t] = "failed"
        /\ Polling(u)
        /\ elapsed[u] = 1

\* the tasks of the sample that have not resolved
Unresolved == { t \in Tasks : ~Resolved(t) }

\* C17: the wait-group counter is the number of tasks of the sample that have
\* not resolved: never negative, and zero only when all have resolved.
C17_CounterCountsUnresolved ==
    /\ wg = Cardinality(Unresolved)
    /\ wg >= 0
    /\ (pc \in {"dispatch", "wait", "done"} /\ wg = 0) =>
          \A t \in Tasks : Resolved(t)

\* one task has left through its timeout after an assertion failed inside its
\* condition, the other is still polling
C17_Witness ==
    /\ wg = 1
    /\ \E t, u \in Tasks :
          phase[t] = "failed" /\ last[t] = "abort" /\ Polling(u)

\* C16: under fair scheduling, whatever the probes return, every dispatched
\* task eventually resolves as success or failure, and once the apply call
\* has returned without error the harness eventually passes the join and
\* records t4.
C16_EveryTaskResolvesAndJoinPasses ==
    /\ \A t \in TaskIds :
          (t \in Tasks /\ phase[t] = "spawned") ~> (t \in Tasks /\ Resolved(t))
    /\ (pc = "applied") ~> (pc = "done" /\ t4set)

\* the join is passed after one task was left without a result by a failed
\* assertion and another succeeded after a transport error
C16_Witness ==
    /\ pc = "done"
    /\ t4set
    /\ \E t, u \in Tasks :
          /\ phase[t] = "failed" /\ last[t] = "abort"
          /\ phase[u] = "succeeded" /\ last[u] = "err"

-----------------------------------------------------------------------------
(* ListenerBuilder (checked under SpecBuilder) *)

\* What the Gateway API asks of a Listener: a port in 1..65535, one of the
\* protocol types, and for allowed routes the default "namespaces from Same"
\* when none are given.
ProtocolTypes == {"HTTP", "HTTPS", "TLS", "TCP", "UDP"}
DefaultAllowedRoutes == <<"Same">>

\* C15: in a Listener returned by Build or IntoSlice, every field no setter
\* was called for has the value the Gateway API specifies, so that the
\* Listener is valid.
C15_UnsetFieldsHaveDefaults ==
    \A i \in 1 .. Len(built) :
        /\ "Port" \notin called => built[i].Port >= 1 /\ built[i].Port <= 65535
        /\ "Protocol" \notin called => built[i].Protocol \in ProtocolTypes
        /\ "AllowedRoutes" \notin called =>
              built[i].AllowedRoutes = DefaultAllowedRoutes

\* listener' differs from listener in field f at most
OnlyField(f) ==
    \A g \in {"Name", "Port", "Protocol", "Hostname", "AllowedRoutes"} \ {f} :
        listener'[g] = listener[g]

\* C18: every setter changes its own field only, a protocol setter leaves the
\* protocol it names, the name given to NewListener is never changed, and
\* Build and IntoSlice return the listener as configured and leave the
\* builder as it is.
C18_SettersChangeOwnFieldOnly ==
    [][/\ listener'.Name = listener.Name
       /\ op' = "WithPort" => OnlyField("Port") /\ built' = built
       /\ op' = "WithHostname" => OnlyField("Hostname") /\ built' = built
       /\ op' = "WithAllowedRoutes" => OnlyField("AllowedRoutes") /\ built' = built
       /\ op' \in {"HTTP", "HTTPS", "TLS", "TCP"} =>
             /\ OnlyField("Protocol")
             /\ listener'.Protocol = op'
             /\ built' = built
       /\ op' \in {"Build", "IntoSlice"} =>
             /\ listener' = listener
             /\ called' = called
             /\ built' = <<listener>>]_vars

\* a listener is built with every field set, its protocol set a second time
C18_Witness ==
    /\ op = "IntoSlice"
    /\ called = {"Port", "Protocol", "Hostname", "AllowedRoutes"}
    /\ built = <<[Name |-> "tls", Port |-> 443, Protocol |-> "TLS",
                  Hostname |-> <<"a.example.com">>, AllowedRoutes |-> <<"All">>]>>
    /\ listener = built[1]

====
